---------------------------- MODULE Spec2Model ----------------------------
(***************************************************************************)
(* Countries API: request handler (controllers/countrycontroller.py),      *)
(* mapping service (services/countryservices.py) and upstream client       *)
(* (clients/countryClient.py).                                             *)
(*                                                                         *)
(* Three specifications:                                                   *)
(*   Spec     the calls into the three layers, each with one outbound GET  *)
(*            in flight that the provider answers or that times out, the   *)
(*            requests the router matches to no route, and the calls into  *)
(*            the weather service (services/weatherservices.py);           *)
(*   FairSpec the same calls where every awaited GET eventually ends;      *)
(*   MapSpec  the field-extraction blocks of the service applied to every  *)
(*            Raw Provider Record of three bounded families.               *)
(*                                                                         *)
(* Modelling conventions                                                   *)
(*   - a Python str that is a lookup key is a sequence of one-character    *)
(*     strings, so that strip() and upper() are computed;                  *)
(*   - a JSON object is a record whose optional members are options:       *)
(*     <<>> when the key is absent, <<v>> when it is present;              *)
(*   - a JSON object iterated in order (currencies, languages) is a        *)
(*     sequence of entries with distinct keys, in the provider's order;    *)
(*   - the result of a call is an outcome: the value returned, or the      *)
(*     exception raised.                                                   *)
(***************************************************************************)
EXTENDS Integers, Sequences, FiniteSets, TLC

VARIABLES
  pc,            \* per call: "idle", "awaiting" (outbound GET in flight), "done"
  kind,          \* per call: the entry point called
  key,           \* per call: the key exactly as the caller supplied it
  outbound,      \* per call: the GET in flight, [path, key], or <<>>
  answer,        \* per call: the provider's response to that GET, or <<>>
  result,        \* per call: the outcome of the entry point, once done
  reply,         \* per call: the HTTP response the caller of a route receives
  gets,          \* per call: the outbound GETs issued so far
  http_client,   \* per call: whether the controller's httpx.AsyncClient is open
  path,          \* per call: the literal segments of the inbound path, or <<>>
  api_key,       \* the environment's OPENWEATHER_API_KEY, or <<>> when unset
  country_data,  \* MapSpec: the Raw Provider Record under mapping
  site,          \* MapSpec: the call site whose mapping block was applied
  mapped         \* MapSpec: the outcome of that mapping block

vars ==
  <<pc, kind, key, outbound, answer, result, reply, gets, http_client, path,
    api_key, country_data, site, mapped>>

callVars ==
  <<pc, kind, key, outbound, answer, result, reply, gets, http_client, path>>
mapVars == <<country_data, site, mapped>>

---------------------------------------------------------------------------
(* Bounds *)

MaxRecords == 2      \* records in one provider array
MaxCapitals == 2     \* entries of a capital list
MaxCurrencies == 2   \* entries of a currencies mapping
MaxLanguages == 2    \* entries of a languages mapping

\* The calls that may be in progress at the same time.
Calls == {"c1", "c2"}

---------------------------------------------------------------------------
(* Options and sequences *)

None == <<>>
Some(v) == <<v>>
Has(o) == Len(o) > 0
Get(o) == o[1]

SeqsUpTo(S, n) == UNION {[1..m -> S] : m \in 0..n}

\* Sequences without repetition: the keys of a JSON object are distinct.
Injective(s) == \A i, j \in 1..Len(s) : i # j => s[i] # s[j]

\* dict.get(k, default)
GetOr(o, default) == IF Has(o) THEN Get(o) ELSE default

---------------------------------------------------------------------------
(* Python str.strip() and str.upper() on lookup keys *)

\* The keys callers supply: a bare key, the same key with a space before or
\* after it, and a mixed-case key with spaces before, inside and after it.
Keys ==
  { <<"c", "o">>,
    <<" ", "c", "o">>,
    <<"c", "o", " ">>,
    <<" ", "U", " ", "s", " ", " ">> }

IsSpace(ch) == ch = " "

RECURSIVE lstrip(_)
lstrip(s) == IF s # <<>> /\ IsSpace(Head(s)) THEN lstrip(Tail(s)) ELSE s

RECURSIVE rstrip(_)
rstrip(s) ==
  IF s # <<>> /\ IsSpace(s[Len(s)]) THEN rstrip(SubSeq(s, 1, Len(s) - 1)) ELSE s

\* strip removing the leading whitespace only.
strip_leading(s) == lstrip(s)

strip(s) == rstrip(lstrip(s))

UpperChar(ch) ==
  CASE ch = "c" -> "C"
    [] ch = "o" -> "O"
    [] ch = "s" -> "S"
    [] OTHER -> ch
upper(s) == [i \in 1..Len(s) |-> UpperChar(s[i])]

---------------------------------------------------------------------------
(* Outcomes: what a call returns or raises *)

\* A normal return; ret is the sequence of the values returned (one value
\* for a function returning a single object, the list itself for a list).
Return(v) == [exc |-> "", status |-> 0, detail |-> <<>>, ret |-> v]

\* A Python exception other than HTTPException (KeyError, AttributeError).
Raise(e) == [exc |-> e, status |-> 0, detail |-> <<>>, ret |-> <<>>]

\* fastapi.HTTPException(status_code, detail).
HTTPException(status_code, detail) ==
  [exc |-> "HTTPException", status |-> status_code, detail |-> detail, ret |-> <<>>]

NoOutcome == [exc |-> "none", status |-> 0, detail |-> <<>>, ret |-> <<>>]

Returned(o) == o.exc = ""
Raised(o) == o.exc \notin {"", "none"}

---------------------------------------------------------------------------
(* Raw Provider Records *)

CapitalList(items) == [isList |-> TRUE, items |-> items, text |-> ""]
CapitalText(text) == [isList |-> FALSE, items |-> <<>>, text |-> text]

\* The record of the end-to-end example.
Colombia ==
  [ name |-> Some([common |-> Some("Colombia"),
                   official |-> Some("Republic of Colombia")]),
    capital |-> Some(CapitalList(<<"Bogota">>)),
    population |-> Some(50882884),
    region |-> Some("Americas"),
    subregion |-> Some("South America"),
    currencies |-> Some(<<[code |-> "COP",
                           info |-> [name |-> Some("Colombian peso"),
                                     symbol |-> Some("$")]]>>),
    languages |-> Some(<<[code |-> "spa", name |-> "Spanish"]>>),
    flags |-> Some([png |-> Some("https://flagcdn.com/w320/co.png")]),
    cca2 |-> Some("CO") ]

NameOpts ==
  {None} \cup
  {Some([common |-> c, official |-> o]) :
     c \in {None, Some("Bolivia")},
     o \in {None, Some("Plurinational State of Bolivia")}}

Capitals == {"Sucre", "La Paz"}

CapitalOpts ==
  {None}
  \cup {Some(CapitalList(s)) : s \in SeqsUpTo(Capitals, MaxCapitals)}
  \cup {Some(CapitalText(t)) : t \in {"", "Sucre"}}

PopulationOpts == {None, Some(11673029)}
RegionOpts == {None, Some("Americas")}
SubregionOpts == {None, Some("South America")}
FlagsOpts ==
  {None, Some([png |-> None]), Some([png |-> Some("https://flagcdn.com/w320/bo.png")])}
Cca2Opts == {None, Some("BO")}

CurrencyCodes == {"BOB", "USD"}

CurrencyEntries ==
  {[code |-> c, info |-> [name |-> n, symbol |-> s]] :
     c \in CurrencyCodes,
     n \in {None, Some("currency name")},
     s \in {None, Some("$")}}

CurrencyDicts ==
  {d \in SeqsUpTo(CurrencyEntries, MaxCurrencies) :
     Injective([i \in 1..Len(d) |-> d[i].code])}

CurrenciesOpts == {None} \cup {Some(d) : d \in CurrencyDicts}

LanguageEntries ==
  { [code |-> "spa", name |-> "Spanish"], [code |-> "aym", name |-> "Aymara"] }

LanguageDicts ==
  {d \in SeqsUpTo(LanguageEntries, MaxLanguages) :
     Injective([i \in 1..Len(d) |-> d[i].code])}

LanguagesOpts == {None} \cup {Some(d) : d \in LanguageDicts}

\* A record with the given members.
RawRecord(n, c, p, r, s, f, k, cu, l) ==
  [ name |-> n, capital |-> c, population |-> p, region |-> r, subregion |-> s,
    currencies |-> cu, languages |-> l, flags |-> f, cca2 |-> k ]

\* The records the provider returns in Spec: the example, and the same
\* record without its name.
Nameless == [Colombia EXCEPT !.name = None]

ProviderRecords == {Colombia, Nameless}

---------------------------------------------------------------------------
(* DTOs/countryDtos.py *)

CurrencyDTO(code, name, symbol) == [code |-> code, name |-> name, symbol |-> symbol]

CountryResponseDTO(name, official_name, capital, population, region, subregion, currencies, languages, flag, country_code) ==
  [ name |-> name,
    official_name |-> official_name,
    capital |-> capital,
    population |-> population,
    region |-> region,
    subregion |-> subregion,
    currencies |-> [i \in 1..Len(currencies) |->
                      CurrencyDTO(currencies[i].code, currencies[i].name,
                                  currencies[i].symbol)],
    languages |-> languages,
    flag |-> flag,
    country_code |-> country_code ]

\* Python truth value of a capital member: a non-empty list or string.
Truthy(capital) ==
  IF capital.isList THEN capital.items # <<>> ELSE capital.text # ""

---------------------------------------------------------------------------
(* services/countryservices.py: the mapping block of get_country *)

get_country_currencies(cd) ==
  IF Has(cd.currencies)
  THEN [i \in 1..Len(Get(cd.currencies)) |->
          LET code == Get(cd.currencies)[i].code
              currency_info == Get(cd.currencies)[i].info
          IN  [code |-> code,
               name |-> GetOr(currency_info.name, ""),
               symbol |-> GetOr(currency_info.symbol, "")]]
  ELSE <<>>

\* Faulty variant: list(country_data["languages"].keys()), the codes.
get_country_languages_keys(cd) ==
  IF Has(cd.languages)
  THEN [i \in 1..Len(Get(cd.languages)) |-> Get(cd.languages)[i].code]
  ELSE <<>>

get_country_languages(cd) ==
  IF Has(cd.languages)
  THEN [i \in 1..Len(Get(cd.languages)) |-> Get(cd.languages)[i].name]
  ELSE <<>>

\* Faulty variant: country_data["capital"][-1], the last element.
get_country_capital_last(cd) ==
  IF Has(cd.capital) /\ Truthy(Get(cd.capital))
  THEN IF Get(cd.capital).isList
       THEN Get(cd.capital).items[Len(Get(cd.capital).items)]
       ELSE Get(cd.capital).text
  ELSE ""

get_country_capital(cd) ==
  IF Has(cd.capital) /\ Truthy(Get(cd.capital))
  THEN IF Get(cd.capital).isList
       THEN Get(cd.capital).items[1]
       ELSE Get(cd.capital).text
  ELSE ""

\* country_data["name"]["common"] and ["official"] raise KeyError when the
\* key is absent; every other member is read with a default.
get_country_dto(cd) ==
  IF ~Has(cd.name) THEN Raise("KeyError")
  ELSE IF ~Has(Get(cd.name).common) THEN Raise("KeyError")
  ELSE IF ~Has(Get(cd.name).official) THEN Raise("KeyError")
  ELSE Return(<<CountryResponseDTO(
                  Get(Get(cd.name).common),
                  Get(Get(cd.name).official),
                  get_country_capital(cd),
                  GetOr(cd.population, 0),
                  GetOr(cd.region, ""),
                  GetOr(cd.subregion, ""),
                  get_country_currencies(cd),
                  get_country_languages(cd),
                  GetOr(GetOr(cd.flags, [png |-> None]).png, ""),
                  GetOr(cd.cca2, ""))>>)

---------------------------------------------------------------------------
(* services/countryservices.py: the mapping block of get_country_by_code *)

by_code_currencies(cd) ==
  IF Has(cd.currencies)
  THEN [i \in 1..Len(Get(cd.currencies)) |->
          LET code == Get(cd.currencies)[i].code
              currency_info == Get(cd.currencies)[i].info
          IN  [code |-> code,
               name |-> GetOr(currency_info.name, ""),
               symbol |-> GetOr(currency_info.symbol, "")]]
  ELSE <<>>

by_code_languages(cd) ==
  IF Has(cd.languages)
  THEN [i \in 1..Len(Get(cd.languages)) |-> Get(cd.languages)[i].name]
  ELSE <<>>

by_code_capital(cd) ==
  IF Has(cd.capital) /\ Truthy(Get(cd.capital))
  THEN IF Get(cd.capital).isList
       THEN Get(cd.capital).items[1]
       ELSE Get(cd.capital).text
  ELSE ""

\* Faulty variant: country_data["flags"].get("png", ""), a KeyError when
\* `flags` is absent.
by_code_dto_flagsRequired(cd) ==
  IF ~Has(cd.name) THEN Raise("KeyError")
  ELSE IF ~Has(Get(cd.name).common) THEN Raise("KeyError")
  ELSE IF ~Has(Get(cd.name).official) THEN Raise("KeyError")
  ELSE IF ~Has(cd.flags) THEN Raise("KeyError")
  ELSE Return(<<CountryResponseDTO(
                  Get(Get(cd.name).common),
                  Get(Get(cd.name).official),
                  by_code_capital(cd),
                  GetOr(cd.population, 0),
                  GetOr(cd.region, ""),
                  GetOr(cd.subregion, ""),
                  by_code_currencies(cd),
                  by_code_languages(cd),
                  GetOr(Get(cd.flags).png, ""),
                  GetOr(cd.cca2, ""))>>)

by_code_dto(cd) ==
  IF ~Has(cd.name) THEN Raise("KeyError")
  ELSE IF ~Has(Get(cd.name).common) THEN Raise("KeyError")
  ELSE IF ~Has(Get(cd.name).official) THEN Raise("KeyError")
  ELSE Return(<<CountryResponseDTO(
                  Get(Get(cd.name).common),
                  Get(Get(cd.name).official),
                  by_code_capital(cd),
                  GetOr(cd.population, 0),
                  GetOr(cd.region, ""),
                  GetOr(cd.subregion, ""),
                  by_code_currencies(cd),
                  by_code_languages(cd),
                  GetOr(GetOr(cd.flags, [png |-> None]).png, ""),
                  GetOr(cd.cca2, ""))>>)

---------------------------------------------------------------------------
(* services/countryservices.py: the loop body of get_countries_by_currency *)

\* Faulty variant: the entries are appended in reverse order.
by_currency_currencies_reversed(cd) ==
  IF Has(cd.currencies)
  THEN [i \in 1..Len(Get(cd.currencies)) |->
          LET n == Len(Get(cd.currencies))
              code == Get(cd.currencies)[n + 1 - i].code
              currency_info == Get(cd.currencies)[n + 1 - i].info
          IN  [code |-> code,
               name |-> GetOr(currency_info.name, ""),
               symbol |-> GetOr(currency_info.symbol, "")]]
  ELSE <<>>

by_currency_currencies(cd) ==
  IF Has(cd.currencies)
  THEN [i \in 1..Len(Get(cd.currencies)) |->
          LET code == Get(cd.currencies)[i].code
              currency_info == Get(cd.currencies)[i].info
          IN  [code |-> code,
               name |-> GetOr(currency_info.name, ""),
               symbol |-> GetOr(currency_info.symbol, "")]]
  ELSE <<>>

by_currency_languages(cd) ==
  IF Has(cd.languages)
  THEN [i \in 1..Len(Get(cd.languages)) |-> Get(cd.languages)[i].name]
  ELSE <<>>

by_currency_capital(cd) ==
  IF Has(cd.capital) /\ Truthy(Get(cd.capital))
  THEN IF Get(cd.capital).isList
       THEN Get(cd.capital).items[1]
       ELSE Get(cd.capital).text
  ELSE ""

\* Faulty variant: the names read with .get() and a default of "".
by_currency_dto_nameDefault(cd) ==
  Return(<<CountryResponseDTO(
             GetOr(GetOr(cd.name, [common |-> None, official |-> None]).common, ""),
             GetOr(GetOr(cd.name, [common |-> None, official |-> None]).official, ""),
             by_currency_capital(cd),
             GetOr(cd.population, 0),
             GetOr(cd.region, ""),
             GetOr(cd.subregion, ""),
             by_currency_currencies(cd),
             by_currency_languages(cd),
             GetOr(GetOr(cd.flags, [png |-> None]).png, ""),
             GetOr(cd.cca2, ""))>>)

by_currency_dto(cd) ==
  IF ~Has(cd.name) THEN Raise("KeyError")
  ELSE IF ~Has(Get(cd.name).common) THEN Raise("KeyError")
  ELSE IF ~Has(Get(cd.name).official) THEN Raise("KeyError")
  ELSE Return(<<CountryResponseDTO(
                  Get(Get(cd.name).common),
                  Get(Get(cd.name).official),
                  by_currency_capital(cd),
                  GetOr(cd.population, 0),
                  GetOr(cd.region, ""),
                  GetOr(cd.subregion, ""),
                  by_currency_currencies(cd),
                  by_currency_languages(cd),
                  GetOr(GetOr(cd.flags, [png |-> None]).png, ""),
                  GetOr(cd.cca2, ""))>>)

---------------------------------------------------------------------------
(* The provider's answers *)

StatusCodes == {200, 404, 500, 503}

\* httpx.Response: status_code and, for a 200, the parsed JSON array.
Responses ==
  {[status_code |-> s, json |-> <<>>] : s \in StatusCodes \ {200}}
  \cup {[status_code |-> 200, json |-> b] : b \in SeqsUpTo(ProviderRecords, MaxRecords)}

---------------------------------------------------------------------------
(* clients/countryClient.py *)

\* The methods RestCountriesClient defines.
ClientMethods ==
  {"get_country_by_name", "get_countries_by_currency", "get_countries_by_language"}

\* The GET each method issues: the path segment and the key put in the URL.
Client_url_by_name(country_name) == [path |-> "name", key |-> country_name]
Client_url_by_currency(currency_code) == [path |-> "currency", key |-> currency_code]
Client_url_by_language(language_code) == [path |-> "lang", key |-> language_code]

\* The detail texts; a fixed text is one element, the key is spelled out.
NotFoundByName(country_name) ==
  <<"País '">> \o country_name
    \o <<"' no encontrado. Verifica el nombre e intenta de nuevo.">>
NotFoundByCurrency(currency_code) ==
  <<"No se encontraron países que usen la moneda '">> \o currency_code \o <<"'">>
NotFoundByLanguage(language_code) ==
  <<"No se encontraron países que hablen '">> \o language_code \o <<"'">>

\* Faulty variant: no check for an empty array, so data[0] raises IndexError.
Client_get_country_by_name_noEmptyCheck(country_name, response) ==
  IF response.status_code = 404
  THEN HTTPException(404, NotFoundByName(country_name))
  ELSE IF response.status_code # 200
  THEN HTTPException(response.status_code,
         <<"Error al obtener información del país desde REST Countries API">>)
  ELSE LET data == response.json
       IN  IF data = <<>> THEN Raise("IndexError") ELSE Return(<<data[1]>>)

Client_get_country_by_name(country_name, response) ==
  IF response.status_code = 404
  THEN HTTPException(404, NotFoundByName(country_name))
  ELSE IF response.status_code # 200
  THEN HTTPException(response.status_code,
         <<"Error al obtener información del país desde REST Countries API">>)
  ELSE LET data == response.json
       IN  IF data = <<>>
           THEN HTTPException(404, NotFoundByName(country_name))
           ELSE Return(<<data[1]>>)

\* Faulty variant: every unexpected status is raised as a 500.
Client_get_countries_by_currency_as500(currency_code, response) ==
  IF response.status_code = 404
  THEN HTTPException(404, NotFoundByCurrency(currency_code))
  ELSE IF response.status_code # 200
  THEN HTTPException(500,
         <<"Error al obtener países por moneda desde REST Countries API">>)
  ELSE Return(response.json)

Client_get_countries_by_currency(currency_code, response) ==
  IF response.status_code = 404
  THEN HTTPException(404, NotFoundByCurrency(currency_code))
  ELSE IF response.status_code # 200
  THEN HTTPException(response.status_code,
         <<"Error al obtener países por moneda desde REST Countries API">>)
  ELSE Return(response.json)

Client_get_countries_by_language(language_code, response) ==
  IF response.status_code = 404
  THEN HTTPException(404, NotFoundByLanguage(language_code))
  ELSE IF response.status_code # 200
  THEN HTTPException(response.status_code,
         <<"Error al obtener países por idioma desde REST Countries API">>)
  ELSE Return(response.json)

---------------------------------------------------------------------------
(* services/countryservices.py *)

\* country_data[0] where country_data is a JSON object: its keys are
\* strings, so the subscript 0 raises KeyError.
Subscript0(cd) == Raise("KeyError")

Service_get_country(country_name, response) ==
  LET name == strip(country_name)
      fromClient == Client_get_country_by_name(name, response)
  IN  IF Raised(fromClient) THEN fromClient
      ELSE LET first == Subscript0(fromClient.ret[1])
           IN  IF Raised(first) THEN first
               ELSE get_country_dto(first.ret[1])

\* self.client.get_country_by_code is looked up before anything is awaited.
Service_get_country_by_code(country_code) ==
  LET code == upper(strip(country_code))
  IN  IF "get_country_by_code" \notin ClientMethods
      THEN Raise("AttributeError")
      ELSE NoOutcome

\* The for loop: the first element whose mapping raises ends the call.
by_currency_loop(countries_data) ==
  LET outs == [i \in 1..Len(countries_data) |-> by_currency_dto(countries_data[i])]
      failing == {i \in 1..Len(countries_data) : Raised(outs[i])}
  IN  IF failing # {}
      THEN outs[CHOOSE i \in failing : \A j \in failing : i <= j]
      ELSE Return([i \in 1..Len(countries_data) |-> outs[i].ret[1]])

Service_get_countries_by_currency(currency_code, response) ==
  LET code == upper(strip(currency_code))
      fromClient == Client_get_countries_by_currency(code, response)
  IN  IF Raised(fromClient) THEN fromClient
      ELSE by_currency_loop(fromClient.ret)

---------------------------------------------------------------------------
(* controllers/countrycontroller.py, served by FastAPI *)

NoReply == [status |-> 0, detail |-> <<>>, body |-> <<>>]

\* HttpReply with a failure that is not an HTTPException answered as an
\* empty success.
HttpReply_swallowed(outcome) ==
  IF Returned(outcome) \/ outcome.exc # "HTTPException"
  THEN [status |-> 200, detail |-> <<>>, body |-> outcome.ret]
  ELSE [status |-> outcome.status, detail |-> outcome.detail, body |-> <<>>]

\* What FastAPI sends for the outcome of a route function: the model as 200,
\* an HTTPException as its status and detail, anything else as 500.
HttpReply(outcome) ==
  IF Returned(outcome)
  THEN [status |-> 200, detail |-> <<>>, body |-> outcome.ret]
  ELSE IF outcome.exc = "HTTPException"
  THEN [status |-> outcome.status, detail |-> outcome.detail, body |-> <<>>]
  ELSE [status |-> 500, detail |-> <<"Internal Server Error">>, body |-> <<>>]

Controller_get_country(country, response) == Service_get_country(country, response)

---------------------------------------------------------------------------
(* Routing: main.py and the router of controllers/countrycontroller.py *)

\* An inbound path is its literal segments followed by one key segment:
\* /api/countries/currency/COP has prefix <<"api", "countries", "currency">>.
Path(prefix, last) == [prefix |-> prefix, last |-> last]

\* APIRouter(prefix="/api")
router_prefix == <<"api">>

\* The path templates the application binds: the literal segments, the number
\* of path parameters after them, and the function bound.
Routes ==
  { [prefix |-> <<>>, params |-> 0, endpoint |-> "home"],
    [prefix |-> router_prefix \o <<"countries">>, params |-> 1,
     endpoint |-> "get_country"] }

\* A path parameter matches exactly one segment.
Match(route, p) == route.params = 1 /\ route.prefix = p.prefix

Endpoint(p) ==
  IF \E r \in Routes : Match(r, p)
  THEN (CHOOSE r \in Routes : Match(r, p)).endpoint
  ELSE "none"

\* The paths callers request for the lookups: by name, by code, by currency,
\* by language, and the weather of a city.
LookupPrefixes ==
  { <<"api", "countries">>,
    <<"api", "countries", "code">>,
    <<"api", "countries", "currency">>,
    <<"api", "countries", "language">>,
    <<"api", "weather">> }

\* What the router sends for a path no template matches.
NotFoundReply == [status |-> 404, detail |-> <<"Not Found">>, body |-> <<>>]

---------------------------------------------------------------------------
(* services/weatherservices.py, clients/weatherClient.py, DTOs/weatherDtos.py *)

\* The names each module binds at its top level.
ModuleNames(m) ==
  CASE m = "clients.weatherClient" -> {"httpx", "HTTPException", "AppSettings", "OpenWeatherClient"}
    [] m = "DTOs.weatherDtos" -> {"BaseModel", "Field", "WeatherResponseDto"}
    [] m = "appsettings" -> {"os", "AppSettings"}
    [] OTHER -> {}

\* from m import name
ImportFrom(m, name) ==
  IF name \in ModuleNames(m) THEN Return(<<name>>) ELSE Raise("ImportError")

\* The outcome of the first statement that raises, else of the last one.
RECURSIVE FirstRaised(_)
FirstRaised(outcomes) ==
  IF Len(outcomes) = 1 \/ Raised(Head(outcomes))
  THEN Head(outcomes)
  ELSE FirstRaised(Tail(outcomes))

\* Executing the top level of services/weatherservices.py (lines 3-5).
Import_weatherservices ==
  FirstRaised(<< ImportFrom("clients.weatherClient", "OpenWeatherClient"),
                 ImportFrom("DTOs.weatherDtos", "WeatherResponseDTO"),
                 ImportFrom("appsettings", "appsettings") >>)

\* The attributes of class OpenWeatherClient: get_coordinates and get_weather
\* are functions local to __init__, not attributes of the class or instance.
OpenWeatherClientAttrs == {"__init__"}

\* The cities for which the geocoding endpoint answers a non-empty array.
KnownCities == { <<"c", "o">> }

\* WeatherService.__init__
WeatherService_init(OPENWEATHER_API_KEY) ==
  IF ~Has(OPENWEATHER_API_KEY)
  THEN HTTPException(500, <<"OPENWEATHER_API_KEY no esta configurado">>)
  ELSE Return(<<"WeatherService">>)

\* WeatherService.get_weather up to its first call into the client.
WeatherService_get_weather(city) ==
  IF "get_coordinates" \notin OpenWeatherClientAttrs
  THEN Raise("AttributeError")
  ELSE NoOutcome

\* A caller importing the weather service, constructing it and asking for the
\* weather of a city.
Service_get_weather(city, OPENWEATHER_API_KEY) ==
  FirstRaised(<< Import_weatherservices,
                 WeatherService_init(OPENWEATHER_API_KEY),
                 WeatherService_get_weather(strip(city)) >>)

---------------------------------------------------------------------------
(* Spec: the calls *)

Idle(c) ==
  /\ pc[c] = "idle"
  /\ outbound[c] = None

CallInit ==
  /\ pc = [c \in Calls |-> "idle"]
  /\ kind = [c \in Calls |-> "none"]
  /\ key = [c \in Calls |-> <<>>]
  /\ outbound = [c \in Calls |-> None]
  /\ answer = [c \in Calls |-> None]
  /\ result = [c \in Calls |-> NoOutcome]
  /\ reply = [c \in Calls |-> NoReply]
  /\ gets = [c \in Calls |-> 0]
  /\ http_client = [c \in Calls |-> FALSE]
  /\ path = [c \in Calls |-> <<>>]

MapIdle ==
  /\ country_data = Colombia
  /\ site = "none"
  /\ mapped = NoOutcome

\* The application object is built by main.py whatever the environment holds.
Init ==
  /\ CallInit
  /\ MapIdle
  /\ api_key \in {None, Some("k")}

\* GET /api/countries/{country}: the controller opens its http client, the
\* service strips the key and the client issues the GET.
GetCountry(c, country) ==
  /\ Idle(c)
  /\ Endpoint(Path(router_prefix \o <<"countries">>, country)) = "get_country"
  /\ pc' = [pc EXCEPT ![c] = "awaiting"]
  /\ kind' = [kind EXCEPT ![c] = "get_country"]
  /\ key' = [key EXCEPT ![c] = country]
  /\ outbound' = [outbound EXCEPT ![c] = Some(Client_url_by_name(strip(country)))]
  /\ gets' = [gets EXCEPT ![c] = @ + 1]
  /\ http_client' = [http_client EXCEPT ![c] = TRUE]
  /\ path' = [path EXCEPT ![c] = router_prefix \o <<"countries">>]
  /\ UNCHANGED <<answer, result, reply, mapVars, api_key>>

\* CountriesService.get_country_by_code(country_code, http_client).
GetCountryByCode(c, country_code) ==
  /\ Idle(c)
  /\ pc' = [pc EXCEPT ![c] = "done"]
  /\ kind' = [kind EXCEPT ![c] = "get_country_by_code"]
  /\ key' = [key EXCEPT ![c] = country_code]
  /\ result' = [result EXCEPT ![c] = Service_get_country_by_code(country_code)]
  /\ UNCHANGED <<outbound, answer, reply, gets, http_client, path, mapVars, api_key>>

\* CountriesService.get_countries_by_currency(currency_code, http_client).
GetCountriesByCurrency(c, currency_code) ==
  /\ Idle(c)
  /\ pc' = [pc EXCEPT ![c] = "awaiting"]
  /\ kind' = [kind EXCEPT ![c] = "get_countries_by_currency"]
  /\ key' = [key EXCEPT ![c] = currency_code]
  /\ outbound' = [outbound EXCEPT ![c] =
                    Some(Client_url_by_currency(upper(strip(currency_code))))]
  /\ gets' = [gets EXCEPT ![c] = @ + 1]
  /\ UNCHANGED <<answer, result, reply, http_client, path, mapVars, api_key>>

\* RestCountriesClient.get_countries_by_language(language_code, http_client).
GetCountriesByLanguage(c, language_code) ==
  /\ Idle(c)
  /\ pc' = [pc EXCEPT ![c] = "awaiting"]
  /\ kind' = [kind EXCEPT ![c] = "get_countries_by_language"]
  /\ key' = [key EXCEPT ![c] = language_code]
  /\ outbound' = [outbound EXCEPT ![c] = Some(Client_url_by_language(language_code))]
  /\ gets' = [gets EXCEPT ![c] = @ + 1]
  /\ UNCHANGED <<answer, result, reply, http_client, path, mapVars, api_key>>

\* The provider answers the GET of a by-name request: the client, the
\* service and the controller run to the end and FastAPI sends the reply.
\* AnswerByName without the `async with`: the client is left open.
AnswerByName_leaked(c, response) ==
  /\ pc[c] = "awaiting"
  /\ kind[c] = "get_country"
  /\ pc' = [pc EXCEPT ![c] = "done"]
  /\ outbound' = [outbound EXCEPT ![c] = None]
  /\ answer' = [answer EXCEPT ![c] = Some(response)]
  /\ result' = [result EXCEPT ![c] = Controller_get_country(key[c], response)]
  /\ reply' = [reply EXCEPT ![c] = HttpReply(Controller_get_country(key[c], response))]
  /\ UNCHANGED <<kind, key, gets, http_client, path, mapVars, api_key>>

AnswerByName(c, response) ==
  /\ pc[c] = "awaiting"
  /\ kind[c] = "get_country"
  /\ pc' = [pc EXCEPT ![c] = "done"]
  /\ outbound' = [outbound EXCEPT ![c] = None]
  /\ answer' = [answer EXCEPT ![c] = Some(response)]
  /\ result' = [result EXCEPT ![c] = Controller_get_country(key[c], response)]
  /\ reply' = [reply EXCEPT ![c] = HttpReply(Controller_get_country(key[c], response))]
  /\ http_client' = [http_client EXCEPT ![c] = FALSE]
  /\ UNCHANGED <<kind, key, gets, path, mapVars, api_key>>

AnswerByCurrency(c, response) ==
  /\ pc[c] = "awaiting"
  /\ kind[c] = "get_countries_by_currency"
  /\ pc' = [pc EXCEPT ![c] = "done"]
  /\ outbound' = [outbound EXCEPT ![c] = None]
  /\ answer' = [answer EXCEPT ![c] = Some(response)]
  /\ result' = [result EXCEPT ![c] =
                  Service_get_countries_by_currency(key[c], response)]
  /\ UNCHANGED <<kind, key, reply, gets, http_client, path, mapVars, api_key>>

AnswerByLanguage(c, response) ==
  /\ pc[c] = "awaiting"
  /\ kind[c] = "get_countries_by_language"
  /\ pc' = [pc EXCEPT ![c] = "done"]
  /\ outbound' = [outbound EXCEPT ![c] = None]
  /\ answer' = [answer EXCEPT ![c] = Some(response)]
  /\ result' = [result EXCEPT ![c] =
                  Client_get_countries_by_language(key[c], response)]
  /\ UNCHANGED <<kind, key, reply, gets, http_client, path, mapVars, api_key>>

\* An inbound request on a path that no template matches: the router answers
\* 404 and no function of the application runs.
NotRouted(c, p) ==
  /\ Idle(c)
  /\ Endpoint(p) = "none"
  /\ pc' = [pc EXCEPT ![c] = "done"]
  /\ kind' = [kind EXCEPT ![c] = "not_routed"]
  /\ key' = [key EXCEPT ![c] = p.last]
  /\ path' = [path EXCEPT ![c] = p.prefix]
  /\ reply' = [reply EXCEPT ![c] = NotFoundReply]
  /\ UNCHANGED <<outbound, answer, result, gets, http_client, mapVars, api_key>>

\* WeatherService().get_weather(city, http_client), from a caller that imports
\* services.weatherservices.
GetWeather(c, city) ==
  /\ Idle(c)
  /\ pc' = [pc EXCEPT ![c] = "done"]
  /\ kind' = [kind EXCEPT ![c] = "get_weather"]
  /\ key' = [key EXCEPT ![c] = city]
  /\ result' = [result EXCEPT ![c] = Service_get_weather(city, api_key)]
  /\ UNCHANGED <<outbound, answer, reply, gets, http_client, path, mapVars, api_key>>

\* TimesOut with one http client shared by all requests: the exception
\* leaving the `async with` closes it for every request.
TimesOut_sharedClient(c) ==
  /\ pc[c] = "awaiting"
  /\ pc' = [pc EXCEPT ![c] = "done"]
  /\ outbound' = [outbound EXCEPT ![c] = None]
  /\ result' = [result EXCEPT ![c] = Raise("TimeoutException")]
  /\ reply' = [reply EXCEPT ![c] =
                 IF kind[c] = "get_country"
                 THEN HttpReply(Raise("TimeoutException"))
                 ELSE @]
  /\ http_client' = [d \in Calls |-> FALSE]
  /\ UNCHANGED <<kind, key, answer, gets, path, mapVars, api_key>>

\* TimesOut with the GET issued again after the first expiry.
TimesOut_retried(c) ==
  /\ pc[c] = "awaiting"
  /\ gets[c] < 2
  /\ gets' = [gets EXCEPT ![c] = @ + 1]
  /\ UNCHANGED <<pc, kind, key, outbound, answer, result, reply, http_client, path,
                 mapVars, api_key>>

\* The awaited GET does not answer within AppSettings.TIMEOUT_SECONDS:
\* http_client.get raises httpx.TimeoutException, which nothing catches; on
\* the route the `async with` closes the client and FastAPI sends the reply.
TimesOut(c) ==
  /\ pc[c] = "awaiting"
  /\ pc' = [pc EXCEPT ![c] = "done"]
  /\ outbound' = [outbound EXCEPT ![c] = None]
  /\ result' = [result EXCEPT ![c] = Raise("TimeoutException")]
  /\ reply' = [reply EXCEPT ![c] =
                 IF kind[c] = "get_country"
                 THEN HttpReply(Raise("TimeoutException"))
                 ELSE @]
  /\ http_client' = [http_client EXCEPT ![c] = FALSE]
  /\ UNCHANGED <<kind, key, answer, gets, path, mapVars, api_key>>

\* The caller has its result; nothing of the call is kept.
Finish(c) ==
  /\ pc[c] = "done"
  /\ pc' = [pc EXCEPT ![c] = "idle"]
  /\ kind' = [kind EXCEPT ![c] = "none"]
  /\ key' = [key EXCEPT ![c] = <<>>]
  /\ answer' = [answer EXCEPT ![c] = None]
  /\ result' = [result EXCEPT ![c] = NoOutcome]
  /\ reply' = [reply EXCEPT ![c] = NoReply]
  /\ gets' = [gets EXCEPT ![c] = 0]
  /\ path' = [path EXCEPT ![c] = <<>>]
  /\ UNCHANGED <<outbound, http_client, mapVars, api_key>>

Next ==
  \E c \in Calls :
    \/ \E k \in Keys : GetCountry(c, k)
    \/ \E k \in Keys : GetCountryByCode(c, k)
    \/ \E k \in Keys : GetCountriesByCurrency(c, k)
    \/ \E k \in Keys : GetCountriesByLanguage(c, k)
    \/ \E k \in Keys : GetWeather(c, k)
    \/ \E pre \in LookupPrefixes, k \in Keys : NotRouted(c, Path(pre, k))
    \/ \E r \in Responses : AnswerByName(c, r)
    \/ \E r \in Responses : AnswerByCurrency(c, r)
    \/ \E r \in Responses : AnswerByLanguage(c, r)
    \/ TimesOut(c)
    \/ Finish(c)

Spec == Init /\ [][Next]_vars

\* The await of call c on its GET ends: with the provider's response, or with
\* the timeout the client sets on every GET.
Completes(c) ==
  \/ \E r \in Responses : AnswerByName(c, r)
  \/ \E r \in Responses : AnswerByCurrency(c, r)
  \/ \E r \in Responses : AnswerByLanguage(c, r)
  \/ TimesOut(c)

\* The application started in an environment that sets the weather API key.
FairInit ==
  /\ CallInit
  /\ MapIdle
  /\ api_key = Some("k")

\* The calls with the event loop resuming every coroutine whose await can
\* end.
FairSpec == FairInit /\ [][Next]_vars /\ \A c \in Calls : WF_vars(Completes(c))

---------------------------------------------------------------------------
(* MapSpec: the mapping blocks of the three service methods, each applied  *)
(* to a record as the statements after the record is selected (lines       *)
(* 98-126, 145-175 and 191-222). In Spec the by-name block is reached only *)
(* past country_data[0] and the by-code block only past the lookup of the  *)
(* client method; the by-currency block runs on every element.             *)

\* The records mapped: three families, each the full product of the members
\* it varies, the other members as in Colombia.
MapInit ==
  /\ CallInit
  /\ api_key = None
  /\ site = "none"
  /\ mapped = NoOutcome
  /\ \/ \E n \in NameOpts, c \in CapitalOpts, p \in PopulationOpts, r \in RegionOpts,
            s \in SubregionOpts, f \in FlagsOpts, k \in Cca2Opts :
          country_data = RawRecord(n, c, p, r, s, f, k,
                                   Colombia.currencies, Colombia.languages)
     \/ \E n \in NameOpts, c \in CapitalOpts, cu \in CurrenciesOpts,
            l \in LanguagesOpts :
          country_data = RawRecord(n, c, Colombia.population, Colombia.region,
                                   Colombia.subregion, Colombia.flags,
                                   Colombia.cca2, cu, l)
     \/ \E cu \in CurrenciesOpts, l \in LanguagesOpts, p \in PopulationOpts,
            r \in RegionOpts, s \in SubregionOpts, f \in FlagsOpts, k \in Cca2Opts :
          country_data = RawRecord(Colombia.name, Colombia.capital, p, r, s, f, k,
                                   cu, l)

MapByName ==
  /\ site = "none"
  /\ site' = "get_country"
  /\ mapped' = get_country_dto(country_data)
  /\ UNCHANGED <<country_data, callVars, api_key>>

MapByCode ==
  /\ site = "none"
  /\ site' = "get_country_by_code"
  /\ mapped' = by_code_dto(country_data)
  /\ UNCHANGED <<country_data, callVars, api_key>>

MapByCurrency ==
  /\ site = "none"
  /\ site' = "get_countries_by_currency"
  /\ mapped' = by_currency_dto(country_data)
  /\ UNCHANGED <<country_data, callVars, api_key>>

MapNext == MapByName \/ MapByCode \/ MapByCurrency

MapSpec == MapInit /\ [][MapNext]_vars

---------------------------------------------------------------------------
(* Claims about the calls (Spec) *)

Done(c, k) == pc[c] = "done" /\ kind[c] = k

\* The provider answered the GET of call c (it did not time out).
Answered(c, k) == Done(c, k) /\ Has(answer[c])

\* The provider's answer to call c.
Got(c) == Get(answer[c])

\* sub occurs in s as a run of consecutive elements.
Contains(s, sub) ==
  \E i \in 0..(Len(s) - Len(sub)) : SubSeq(s, i + 1, i + Len(sub)) = sub

\* The provider reported "no such key": a 404, or a 200 with an empty array.
ReportedNotFound(response) ==
  \/ response.status_code = 404
  \/ response.status_code = 200 /\ response.json = <<>>

\* C1: whenever the provider answers the by-name call with 200 and a
\* non-empty array whose first record has its names, GET /api/countries/{country}
\* ends in a 200 whose body is the record mapped from that first element.
C1_ByNameSuccess ==
  \A c \in Calls :
    ( /\ Answered(c, "get_country")
      /\ Got(c).status_code = 200
      /\ Got(c).json # <<>>
      /\ Returned(get_country_dto(Got(c).json[1])) )
    => /\ Returned(result[c])
       /\ reply[c].status = 200
       /\ reply[c].body = get_country_dto(Got(c).json[1]).ret

\* C2 as stated: when the provider reports the name as not found, the reply
\* is a 404 whose message contains the key exactly as the caller supplied it,
\* and no record is produced.
C2_NotFoundNamesSuppliedKey ==
  \A c \in Calls :
    (Answered(c, "get_country") /\ ReportedNotFound(Got(c)))
    => /\ reply[c].status = 404
       /\ Contains(reply[c].detail, key[c])
       /\ reply[c].body = <<>>

\* C2 as amended: when the provider reports the name as not found, the reply
\* is a 404 whose message names, between its quotes, the caller's key with
\* the surrounding whitespace removed, and no record is produced.
C2_NotFoundNamesStrippedKey ==
  \A c \in Calls :
    (Answered(c, "get_country") /\ ReportedNotFound(Got(c)))
    => /\ reply[c].status = 404
       /\ result[c].exc = "HTTPException"
       /\ Len(reply[c].detail) >= 2
       /\ SubSeq(reply[c].detail, 2, Len(reply[c].detail) - 1) = strip(key[c])
       /\ reply[c].body = <<>>
       /\ result[c].ret = <<>>

\* Both ways of reporting not-found have happened, one of them for a key
\* that has whitespace around it.
C2_Witness ==
  /\ Answered("c1", "get_country") /\ Got("c1").status_code = 404
  /\ key["c1"] # strip(key["c1"])
  /\ Answered("c2", "get_country") /\ Got("c2").status_code = 200
  /\ Got("c2").json = <<>>

LookupKinds ==
  {"get_country", "get_countries_by_currency", "get_countries_by_language"}

\* C3: for the by-name, by-currency and by-language lookups, a provider
\* status other than 200 and 404 ends the call in an HTTPException with that
\* same status and no record; on the route, that status is the reply's.
C3_UpstreamStatusPropagated ==
  \A c \in Calls :
    ( /\ pc[c] = "done"
      /\ kind[c] \in LookupKinds
      /\ Has(answer[c])
      /\ Got(c).status_code \notin {200, 404} )
    => /\ result[c].exc = "HTTPException"
       /\ result[c].status = Got(c).status_code
       /\ result[c].ret = <<>>
       /\ kind[c] = "get_country"
            => reply[c].status = Got(c).status_code /\ reply[c].body = <<>>

\* A by-name and a by-currency call have each ended on an upstream error,
\* with different statuses.
C3_Witness ==
  /\ Answered("c1", "get_country") /\ Got("c1").status_code = 500
  /\ Answered("c2", "get_countries_by_currency") /\ Got("c2").status_code = 503

\* C4: when the provider reports no country for a currency (a 404, or a 200
\* with an empty array), get_countries_by_currency ends in a 404 failure and
\* never returns an empty list.
C4_NoMatchIsNotFound ==
  \A c \in Calls :
    (Answered(c, "get_countries_by_currency") /\ ReportedNotFound(Got(c)))
    => /\ result[c].exc = "HTTPException"
       /\ result[c].status = 404

\* C10: a record the provider returns alone on the by-name path and alone on
\* the by-currency path is mapped to the same Normalized Result Record.
C10_SameMappingOnEveryPath ==
  \A c, d \in Calls :
    ( /\ Answered(c, "get_country")
      /\ Answered(d, "get_countries_by_currency")
      /\ Got(c).status_code = 200
      /\ Got(d).status_code = 200
      /\ Len(Got(c).json) = 1
      /\ Got(c).json = Got(d).json )
    => result[c] = result[d]

---------------------------------------------------------------------------
(* Claims about the mapping (MapSpec) *)

\* A mapping block has run on country_data and produced a record.
Produced == site # "none" /\ Returned(mapped)

\* The Normalized Result Record produced.
Dto == mapped.ret[1]

HasNames(cd) ==
  /\ Has(cd.name)
  /\ Has(Get(cd.name).common)
  /\ Has(Get(cd.name).official)

\* C5: the currency sequence has one entry per entry of the `currencies`
\* mapping, in the provider's order; the i-th code is the i-th key, name and
\* symbol are the entry's sub-fields or "" when a sub-field is absent; the
\* sequence is empty when `currencies` is absent.
C5_CurrenciesMapped ==
  Produced =>
    IF Has(country_data.currencies)
    THEN LET src == Get(country_data.currencies)
         IN  /\ Len(Dto.currencies) = Len(src)
             /\ \A i \in 1..Len(src) :
                  /\ Dto.currencies[i].code = src[i].code
                  /\ Dto.currencies[i].name =
                       (IF Has(src[i].info.name) THEN Get(src[i].info.name) ELSE "")
                  /\ Dto.currencies[i].symbol =
                       (IF Has(src[i].info.symbol) THEN Get(src[i].info.symbol) ELSE "")
    ELSE Dto.currencies = <<>>

\* Two currencies, the first without a name, the second without a symbol,
\* mapped by the by-currency loop body.
C5_Witness ==
  /\ Produced
  /\ site = "get_countries_by_currency"
  /\ Has(country_data.currencies)
  /\ Len(Get(country_data.currencies)) = 2
  /\ ~Has(Get(country_data.currencies)[1].info.name)
  /\ ~Has(Get(country_data.currencies)[2].info.symbol)
  /\ Has(Get(country_data.currencies)[2].info.name)

\* C6: the capital is "" when `capital` is absent or an empty sequence, the
\* first element when it is a non-empty sequence, the value itself when it
\* is a string; it is always one string.
C6_CapitalNormalized ==
  Produced =>
    /\ Dto.capital \in STRING
    /\ ~Has(country_data.capital) => Dto.capital = ""
    /\ Has(country_data.capital) =>
         LET capital == Get(country_data.capital)
         IN  /\ (capital.isList /\ capital.items = <<>>) => Dto.capital = ""
             /\ (capital.isList /\ capital.items # <<>>) =>
                  Dto.capital = capital.items[1]
             /\ ~capital.isList => Dto.capital = capital.text

\* A capital list of two different cities has been mapped.
C6_Witness ==
  /\ Produced
  /\ Has(country_data.capital)
  /\ Get(country_data.capital).isList
  /\ Len(Get(country_data.capital).items) = 2
  /\ Get(country_data.capital).items[1] # Get(country_data.capital).items[2]

\* C7: for a record that has its names the mapping does not fail, and
\* population, region, subregion, flag and country code are each the
\* record's value when present and 0, "", "", "", "" when absent, whatever
\* the others are.
C7_OptionalDefaults ==
  (site # "none" /\ HasNames(country_data)) =>
    /\ Returned(mapped)
    /\ Dto.population =
         (IF Has(country_data.population) THEN Get(country_data.population) ELSE 0)
    /\ Dto.region =
         (IF Has(country_data.region) THEN Get(country_data.region) ELSE "")
    /\ Dto.subregion =
         (IF Has(country_data.subregion) THEN Get(country_data.subregion) ELSE "")
    /\ Dto.flag =
         (IF Has(country_data.flags) /\ Has(Get(country_data.flags).png)
          THEN Get(Get(country_data.flags).png) ELSE "")
    /\ Dto.country_code =
         (IF Has(country_data.cca2) THEN Get(country_data.cca2) ELSE "")

\* A record with some of the five members present and the others absent has
\* been mapped.
C7_Witness ==
  /\ Produced
  /\ ~Has(country_data.population)
  /\ Has(country_data.region)
  /\ ~Has(country_data.subregion)
  /\ ~Has(country_data.flags)
  /\ Has(country_data.cca2)

\* C8: the languages are the values of the `languages` mapping in the
\* provider's order, without the keys; the empty sequence when it is absent.
C8_LanguagesMapped ==
  Produced =>
    IF Has(country_data.languages)
    THEN LET src == Get(country_data.languages)
         IN  /\ Len(Dto.languages) = Len(src)
             /\ \A i \in 1..Len(src) : Dto.languages[i] = src[i].name
    ELSE Dto.languages = <<>>

\* Two languages have been mapped.
C8_Witness ==
  /\ Produced
  /\ Has(country_data.languages)
  /\ Len(Get(country_data.languages)) = 2

\* C9: a record without `name`, `name.common` or `name.official` makes the
\* mapping fail and yields no record; a record that is produced carries the
\* provider's own common and official names, never a default.
C9_NamesRequired ==
  site # "none" =>
    /\ ~HasNames(country_data) => (Raised(mapped) /\ mapped.ret = <<>>)
    /\ Returned(mapped) =>
         /\ HasNames(country_data)
         /\ Dto.name = Get(Get(country_data.name).common)
         /\ Dto.official_name = Get(Get(country_data.name).official)

\* The mapping of a record that has a name without `official` has failed.
C9_Witness ==
  /\ site # "none"
  /\ Has(country_data.name)
  /\ Has(Get(country_data.name).common)
  /\ ~Has(Get(country_data.name).official)
  /\ Raised(mapped)

---------------------------------------------------------------------------
(* Claims about routing, the by-code lookup and the weather path (Spec) *)

\* The provider, asked by call c, answered 200 with records that all carry
\* their names: the key is one the provider knows.
KnownToProvider(c) ==
  /\ Has(answer[c])
  /\ Got(c).status_code = 200
  /\ Got(c).json # <<>>
  /\ \A i \in 1..Len(Got(c).json) : HasNames(Got(c).json[i])

\* C11: every inbound request on the path of one of the five lookup kinds
\* (by name, by code, by currency, by language, weather by city) reaches a
\* function bound to that path, and when the provider knows the key the
\* request ends in a 200 that carries the mapped record.
C11_EveryLookupKindServed ==
  \A c \in Calls :
    (pc[c] = "done" /\ path[c] \in LookupPrefixes) =>
      /\ kind[c] # "not_routed"
      /\ KnownToProvider(c) => (reply[c].status = 200 /\ reply[c].body # <<>>)

\* C12: a by-code lookup that has ended has issued one by-code GET to the
\* provider and has ended either in the Normalized Result Record or in a
\* classified failure of the client (not found, or the provider's status).
C12_ByCodeLookup ==
  \A c \in Calls :
    Done(c, "get_country_by_code") =>
      /\ gets[c] = 1
      /\ Returned(result[c]) \/ result[c].exc = "HTTPException"

\* C13: with the API key configured, every weather request that has ended has
\* issued the geocoding call and then the conditions call (two GETs, in that
\* order) when the geocoder knows the city, and the record it returns carries
\* in `city` the caller's input exactly as provided.
C13_WeatherOrderAndCityEcho ==
  \A c \in Calls :
    (Done(c, "get_weather") /\ Has(api_key)) =>
      /\ gets[c] >= 1
      /\ strip(key[c]) \in KnownCities =>
           /\ gets[c] = 2
           /\ Returned(result[c])
           /\ result[c].ret[1].city = key[c]

\* C14: with the API key configured, a weather request for a city the
\* geocoder does not know ends in a 404 failure after the geocoding call
\* alone: the conditions call is never issued.
C14_UnknownCityNotFound ==
  \A c \in Calls :
    (Done(c, "get_weather") /\ Has(api_key) /\ strip(key[c]) \notin KnownCities) =>
      /\ result[c].exc = "HTTPException"
      /\ result[c].status = 404
      /\ gets[c] = 1

---------------------------------------------------------------------------
(* Claims about failures, outbound calls and the http client (Spec) *)

\* The GET of call c ended without an answer from the provider.
TimedOut(c) == pc[c] = "done" /\ kind[c] \in LookupKinds /\ ~Has(answer[c])

\* C15: a lookup whose outbound GET timed out ends in the classified failure
\* the client raises for an upstream error (an HTTPException), and on the
\* route the reply is that classified error, not the generic reply for an
\* unhandled exception.
C15_TimeoutIsUpstreamError ==
  \A c \in Calls :
    TimedOut(c) =>
      /\ result[c].exc = "HTTPException"
      /\ kind[c] = "get_country" =>
           reply[c] = HttpReply(HTTPException(result[c].status, result[c].detail))

\* C16: when OPENWEATHER_API_KEY is missing from the environment, the
\* application never has an inbound request in progress or answered: it
\* does not get past startup.
C16_MissingKeyFatalAtStartup ==
  ~Has(api_key) => \A c \in Calls : pc[c] = "idle" /\ reply[c] = NoReply

\* Call c is an inbound HTTP request (it came in on a path).
Inbound(c) == path[c] # <<>>

\* The reply of an inbound request that has ended is the one its outcome
\* calls for: 200 with the record only for a returned record, 404 when the
\* provider reported not found, the provider's status for any other status
\* than 200, and 500 for every other failure.
ReplyClassified(c) ==
  (pc[c] = "done" /\ Inbound(c)) =>
    /\ reply[c] # NoReply
    /\ reply[c].status = 200 =>
         (Returned(result[c]) /\ reply[c].body = result[c].ret /\ reply[c].body # <<>>)
    /\ Returned(result[c]) => reply[c].status = 200
    /\ (Has(answer[c]) /\ ReportedNotFound(Got(c))) => reply[c].status = 404
    /\ (Has(answer[c]) /\ Got(c).status_code # 200) =>
         reply[c].status = Got(c).status_code
    /\ (Raised(result[c]) /\ result[c].exc # "HTTPException") =>
         (reply[c].status = 500 /\ reply[c].body = <<>>)
    /\ kind[c] = "not_routed" => reply[c].status = 404

\* C17: every inbound request in progress eventually ends with a reply; the
\* reply is classified as above, with no failure answered as a success; and
\* once sent it is not replaced by another reply for the same request.
C17_EveryRequestAnsweredOnce ==
  /\ [](\A c \in Calls : ReplyClassified(c))
  /\ [][\A c \in Calls :
          reply[c] # NoReply => (reply'[c] = reply[c] \/ pc'[c] = "idle")]_vars
  /\ \A c \in Calls :
       (pc[c] = "awaiting" /\ Inbound(c)) ~> (pc[c] = "done" /\ reply[c] # NoReply)

\* Two inbound requests have ended in failures of different kinds: one in
\* the generic 500 for an exception raised in the mapping, one timed out.
C17_Witness ==
  /\ Done("c1", "get_country") /\ Inbound("c1")
  /\ Has(answer["c1"]) /\ Got("c1").status_code = 200
  /\ result["c1"].exc = "KeyError" /\ reply["c1"].status = 500
  /\ Done("c2", "get_country") /\ TimedOut("c2") /\ reply["c2"].status = 500

\* C18: a country lookup has issued at most one GET and a weather lookup at
\* most two, whatever the provider answered; the number of GETs of a call
\* grows only when a new call starts, never once a GET is in flight or has
\* ended.
C18_NoRetries ==
  /\ [](\A c \in Calls :
          gets[c] <= IF kind[c] = "get_weather" THEN 2 ELSE 1)
  /\ [][\A c \in Calls : gets'[c] > gets[c] => pc[c] = "idle"]_vars

\* Two lookups have ended on a failed GET, one timed out and one answered
\* 503, each having issued its single GET.
C18_Witness ==
  /\ TimedOut("c1") /\ gets["c1"] = 1
  /\ Answered("c2", "get_countries_by_currency")
  /\ Got("c2").status_code = 503 /\ gets["c2"] = 1

\* The inbound requests in flight, and the http clients open.
InFlight == {c \in Calls : Inbound(c) /\ pc[c] = "awaiting"}
OpenClients == {c \in Calls : http_client[c]}

\* C19: the http client of a request is open only while that request is in
\* flight: it is closed before the request has started and once its reply
\* exists, whatever the outcome; the open clients are never more than the
\* requests in flight, and none is open when no request is in flight.
C19_ClientScopedToRequest ==
  /\ \A c \in Calls : http_client[c] => c \in InFlight
  /\ \A c \in Calls : reply[c] # NoReply => ~http_client[c]
  /\ Cardinality(OpenClients) <= Cardinality(InFlight)
  /\ InFlight = {} => OpenClients = {}

\* One request has ended on an exception of the mapping and its client is
\* closed, while the other is in flight with its client open.
C19_Witness ==
  /\ Done("c1", "get_country") /\ result["c1"].exc = "KeyError"
  /\ ~http_client["c1"]
  /\ "c2" \in InFlight /\ http_client["c2"]

---------------------------------------------------------------------------
(* Claims about the lookup key (Spec) *)

\* t is k without its surrounding whitespace: a run of k that neither starts
\* nor ends with a space, with nothing but spaces before and after it.
Trimmed(k, t) ==
  \E i \in 0..Len(k) :
    /\ i + Len(t) <= Len(k)
    /\ SubSeq(k, i + 1, i + Len(t)) = t
    /\ \A j \in 1..i : IsSpace(k[j])
    /\ \A j \in (i + Len(t) + 1)..Len(k) : IsSpace(k[j])
    /\ t # <<>> => (~IsSpace(t[1]) /\ ~IsSpace(t[Len(t)]))

LowerLetters == {"c", "o", "s"}

\* u is t with every letter in upper case.
UpperCased(t, u) ==
  /\ Len(u) = Len(t)
  /\ \A i \in 1..Len(t) :
       /\ u[i] \notin LowerLetters
       /\ t[i] \notin LowerLetters => u[i] = t[i]
       /\ t[i] \in LowerLetters => (u[i] # t[i] /\ UpperChar(u[i]) = u[i]
                                     /\ u[i] = UpperChar(t[i]))

\* The key in the GET that call c has in flight.
Sent(c) == Get(outbound[c]).key

\* C20: the key a service lookup sends to the provider is the caller's key
\* without its surrounding whitespace, in the caller's case for a name and
\* in upper case for a currency code; and normalizing the key sent again
\* (strip for a name, strip and upper for a code) leaves it unchanged.
C20_KeyNormalized ==
  \A c \in Calls :
    /\ (pc[c] = "awaiting" /\ kind[c] = "get_country") =>
         /\ Trimmed(key[c], Sent(c))
         /\ strip(Sent(c)) = Sent(c)
    /\ (pc[c] = "awaiting" /\ kind[c] = "get_countries_by_currency") =>
         /\ \E t \in {SubSeq(key[c], i, j) : i \in 1..Len(key[c]) + 1, j \in 0..Len(key[c])} :
              Trimmed(key[c], t) /\ UpperCased(t, Sent(c))
         /\ upper(strip(Sent(c))) = Sent(c)

\* A name with a capital letter and spaces around and inside it is in flight
\* by name, and a lower-case code with a space before it by currency.
C20_Witness ==
  /\ pc["c1"] = "awaiting" /\ kind["c1"] = "get_country"
  /\ key["c1"] = <<" ", "U", " ", "s", " ", " ">>
  /\ Sent("c1") = <<"U", " ", "s">>
  /\ pc["c2"] = "awaiting" /\ kind["c2"] = "get_countries_by_currency"
  /\ key["c2"] = <<" ", "c", "o">>
  /\ Sent("c2") = <<"C", "O">>

---------------------------------------------------------------------------
(* Claims about concurrent calls (Spec) *)

\* Everything kept for call c: the locals of its coroutine, its service and
\* client objects, its http client and its reply.
CallState(c) ==
  <<pc[c], kind[c], key[c], outbound[c], answer[c], result[c], reply[c], gets[c],
    http_client[c], path[c]>>

\* Calls c and d were given the same request and the same provider answer
\* (or both none), and both have ended.
SameInputs(c, d) ==
  /\ pc[c] = "done" /\ pc[d] = "done"
  /\ kind[c] = kind[d]
  /\ path[c] = path[d]
  /\ key[c] = key[d]
  /\ answer[c] = answer[d]

\* C21: whatever the interleaving, two calls given the same key and the same
\* provider answer have the same outcome and reply, whatever the other call
\* was doing meanwhile; a step of one call (its start, its answer, its
\* failure, its end) leaves everything kept for the other call as it was;
\* and what is not kept per call (the environment) is never written.
C21_CallsIndependent ==
  /\ [](\A c, d \in Calls :
          SameInputs(c, d) => (result[c] = result[d] /\ reply[c] = reply[d]))
  /\ [][\A c, d \in Calls :
          (c # d /\ CallState(c)' # CallState(c)) => CallState(d)' = CallState(d)]_vars
  /\ [][api_key' = api_key /\ mapVars' = mapVars]_vars

\* Two requests for the same key were handled concurrently: one timed out
\* and was answered 500, the other is still in flight with its client open.
C21_Witness ==
  /\ Done("c1", "get_country") /\ TimedOut("c1") /\ reply["c1"].status = 500
  /\ pc["c2"] = "awaiting" /\ kind["c2"] = "get_country"
  /\ key["c2"] = key["c1"]
  /\ http_client["c2"] /\ reply["c2"] = NoReply

===========================================================================
